---- MODULE Spec2Model ----
(***************************************************************************)
(* Model of the Studevo backend (src/backend/models/Post.js): the three    *)
(* mongoose schemas (Post, Organization, Student) and the express route    *)
(* handlers for registration, login, CV save/fetch and the Post CRUD and   *)
(* list endpoints.  The document store is modelled as three sets of        *)
(* documents; a unique index is a check made by the insert.                *)
(*                                                                         *)
(* Strings on which a schema setter (trim) or a length validator acts are  *)
(* sequences of one-character strings, so that trimming and length are     *)
(* computed, not assumed.  A missing request field (undefined) and the     *)
(* empty string are both the empty sequence: every handler tests them      *)
(* with the same falsy test.                                               *)
(***************************************************************************)
EXTENDS Integers, Sequences, FiniteSets, TLC

VARIABLES students, organizations, posts, nextId, clock, reg, last, linkSchema

vars == <<students, organizations, posts, nextId, clock, reg, last, linkSchema>>

(***************************************************************************)
(* Bounds of the model.                                                    *)
(***************************************************************************)
MaxAccounts == 2
MaxIds == 2
MaxTime == 1

\* Concurrent registration requests in flight.
Req == {1, 2}

(***************************************************************************)
(* Strings.                                                                *)
(***************************************************************************)
Empty == << >>
\* A path of a stored document that was never assigned.
Undefined == <<"undefined">>

Falsy(s) == s = Empty

Or(s, dflt) == IF Falsy(s) THEN dflt ELSE s

RECURSIVE TrimStart(_)
TrimStart(s) == IF s # << >> /\ Head(s) = " " THEN TrimStart(Tail(s)) ELSE s

RECURSIVE TrimEnd(_)
TrimEnd(s) ==
  IF s # << >> /\ s[Len(s)] = " " THEN TrimEnd(SubSeq(s, 1, Len(s) - 1)) ELSE s

Trim(s) == TrimEnd(TrimStart(s))

Repeat(c, n) == [i \in 1..n |-> c]

(***************************************************************************)
(* bcrypt.  A hash remembers the salt and the password it was made from;   *)
(* compare succeeds exactly on that password.                              *)
(***************************************************************************)
Salts == {"s1", "s2"}

Hash(password, salt) == [salt |-> salt, pw |-> password]

Compare(password, hashed) == hashed.pw = password

(***************************************************************************)
(* Student and Organization collections.                                   *)
(***************************************************************************)
\* studentSchema: email, firstName, lastName, phone and the CV paths are
\* declared trim: true, so the setter runs on every value cast to the path:
\* on assignment to a document and on the value of a query filter.
CastStudentString(s) == Trim(s)

\* organizationSchema declares no setter on email.
CastOrgString(s) == s

StudentFind(email) == {s \in students : s.email = CastStudentString(email)}

OrganizationFind(email) == {o \in organizations : o.email = CastOrgString(email)}

NewStudent(id, b, hashed) ==
  [id |-> id,
   email |-> CastStudentString(b.email),
   password |-> hashed,
   firstName |-> CastStudentString(b.firstName),
   lastName |-> CastStudentString(b.lastName),
   phone |-> CastStudentString(b.phone),
   address |-> Undefined, education |-> Undefined, skills |-> Undefined,
   experience |-> Undefined, projects |-> Undefined,
   certifications |-> Undefined]

NewOrganization(id, b, hashed) ==
  [id |-> id,
   orgName |-> b.orgName,
   email |-> CastOrgString(b.email),
   phone |-> Or(b.phone, Empty),
   password |-> hashed]

\* required: true: a required string must be non-empty (the password path
\* holds a bcrypt hash, which never is empty).
StudentValid(doc) == doc.email # Empty

OrganizationValid(doc) == doc.orgName # Empty /\ doc.email # Empty

\* unique: true on email: the index of the collection refuses a second
\* document with the same email.
StudentDuplicate(doc) == \E s \in students : s.email = doc.email

OrganizationDuplicate(doc) == \E o \in organizations : o.email = doc.email

(***************************************************************************)
(* Responses.                                                              *)
(***************************************************************************)
Idle == [op |-> "none"]

ErrInvalidRole == "Invalid role. Must be \"student\" or \"organization\"."
ErrEmailExists == "An account with this email already exists."
ErrStudentFields == "All student fields are required."
ErrOrgFields == "All organization fields and terms acceptance are required."
ErrRegistration == "Server error during registration."

(***************************************************************************)
(* POST /api/auth/register.  The handler suspends at every await; each     *)
(* action below is the code between two awaits, with the storage call's    *)
(* effect.  reg[r].held records whether the request's email was held by    *)
(* an account when the request arrived.                                    *)
(***************************************************************************)
RegIdle ==
  [pc |-> "idle", body |-> [role |-> "none"], inStudent |-> FALSE,
   salt |-> "none", hashed |-> "none", code |-> 0, error |-> "", held |-> FALSE]

InFlight == {r \in Req : reg[r].pc \notin {"idle", "done"}}

EmailHeld(email) ==
  \/ \E s \in students : s.email = email
  \/ \E o \in organizations : o.email = email

RegRespond(r, code, error) ==
  reg' = [reg EXCEPT ![r].pc = "done", ![r].code = code, ![r].error = error]

RegStart(r, b) ==
  /\ reg[r].pc \in {"idle", "done"}
  /\ Cardinality(students) + Cardinality(organizations) + Cardinality(InFlight)
       < MaxAccounts
  /\ IF b.role # "student" /\ b.role # "organization"
     THEN reg' = [reg EXCEPT ![r] =
            [RegIdle EXCEPT !.pc = "done", !.body = b, !.code = 400,
                            !.error = ErrInvalidRole, !.held = EmailHeld(b.email)]]
     ELSE reg' = [reg EXCEPT ![r] =
            [RegIdle EXCEPT !.pc = "existsStudent", !.body = b,
                            !.held = EmailHeld(b.email)]]
  /\ last' = Idle
  /\ UNCHANGED <<students, organizations, posts, nextId, clock, linkSchema>>

RegExistsStudent(r) ==
  /\ reg[r].pc = "existsStudent"
  /\ reg' = [reg EXCEPT ![r].pc = "existsOrg",
                        ![r].inStudent = (StudentFind(reg[r].body.email) # {})]
  /\ last' = Idle
  /\ UNCHANGED <<students, organizations, posts, nextId, clock, linkSchema>>

EmailExistsInOrg_StudentOnly(r) == FALSE

EmailExistsInOrg(r) == OrganizationFind(reg[r].body.email) # {}

RegExistsOrg(r) ==
  /\ reg[r].pc = "existsOrg"
  /\ IF reg[r].inStudent \/ EmailExistsInOrg(r)
     THEN RegRespond(r, 400, ErrEmailExists)
     ELSE reg' = [reg EXCEPT ![r].pc = "genSalt"]
  /\ last' = Idle
  /\ UNCHANGED <<students, organizations, posts, nextId, clock, linkSchema>>

StudentFieldsMissing(b) ==
  Falsy(b.firstName) \/ Falsy(b.lastName) \/ Falsy(b.email) \/ Falsy(b.phone)
    \/ b.password = ""

OrgFieldsMissing(b) ==
  Falsy(b.orgName) \/ Falsy(b.email) \/ b.password = "" \/ ~b.orgTerms

RegGenSalt(r) ==
  /\ reg[r].pc = "genSalt"
  /\ \E salt \in Salts :
       LET b == reg[r].body IN
       IF b.role = "student"
       THEN IF StudentFieldsMissing(b)
            THEN RegRespond(r, 400, ErrStudentFields)
            ELSE reg' = [reg EXCEPT ![r].pc = "hash", ![r].salt = salt]
       ELSE IF OrgFieldsMissing(b)
            THEN RegRespond(r, 400, ErrOrgFields)
            ELSE reg' = [reg EXCEPT ![r].pc = "hash", ![r].salt = salt]
  /\ last' = Idle
  /\ UNCHANGED <<students, organizations, posts, nextId, clock, linkSchema>>

RegHash(r) ==
  /\ reg[r].pc = "hash"
  /\ reg' = [reg EXCEPT ![r].pc = "save",
                        ![r].hashed = Hash(reg[r].body.password, reg[r].salt)]
  /\ last' = Idle
  /\ UNCHANGED <<students, organizations, posts, nextId, clock, linkSchema>>

RegSave(r) ==
  /\ reg[r].pc = "save"
  /\ LET b == reg[r].body IN
     IF b.role = "student"
     THEN LET doc == NewStudent(nextId, b, reg[r].hashed) IN
          IF ~StudentValid(doc) \/ StudentDuplicate(doc)
          THEN /\ RegRespond(r, 500, ErrRegistration)
               /\ UNCHANGED <<students, organizations, nextId>>
          ELSE /\ students' = students \cup {doc}
               /\ nextId' = nextId + 1
               /\ RegRespond(r, 201, "")
               /\ UNCHANGED organizations
     ELSE LET doc == NewOrganization(nextId, b, reg[r].hashed) IN
          IF ~OrganizationValid(doc) \/ OrganizationDuplicate(doc)
          THEN /\ RegRespond(r, 500, ErrRegistration)
               /\ UNCHANGED <<students, organizations, nextId>>
          ELSE /\ organizations' = organizations \cup {doc}
               /\ nextId' = nextId + 1
               /\ RegRespond(r, 201, "")
               /\ UNCHANGED students
  /\ last' = Idle
  /\ UNCHANGED <<posts, clock, linkSchema>>

Register(r, Bodies) ==
  \/ \E b \in Bodies : RegStart(r, b)
  \/ RegExistsStudent(r)
  \/ RegExistsOrg(r)
  \/ RegGenSalt(r)
  \/ RegHash(r)
  \/ RegSave(r)

(***************************************************************************)
(* POST /api/auth/login.                                                   *)
(***************************************************************************)
Null == 0

ErrLoginRequired == "Email and password are required."
ErrInvalidCredentials == "Invalid credentials."

LoginLookup_RoleNotUpdated(email) ==
  IF StudentFind(email) # {}
  THEN {[role |-> "student", user |-> s] : s \in StudentFind(email)}
  ELSE {[role |-> "student", user |-> o] : o \in OrganizationFind(email)}

\* let user = await Student.findOne({ email }); role = 'student'; if none,
\* user = await Organization.findOne({ email }); role = 'organization'.
LoginLookup(email) ==
  IF StudentFind(email) # {}
  THEN {[role |-> "student", user |-> s] : s \in StudentFind(email)}
  ELSE {[role |-> "organization", user |-> o] : o \in OrganizationFind(email)}

LoginResponse(email, password) ==
  IF Falsy(email) \/ password = ""
  THEN [code |-> 400, error |-> ErrLoginRequired]
  ELSE IF LoginLookup(email) = {}
  THEN [code |-> 400, error |-> ErrInvalidCredentials]
  ELSE LET m == CHOOSE m \in LoginLookup(email) : TRUE IN
       IF ~Compare(password, m.user.password)
       THEN [code |-> 400, error |-> ErrInvalidCredentials]
       ELSE [code |-> 200, error |-> "", role |-> m.role,
             email |-> m.user.email, id |-> m.user.id,
             orgId |-> IF m.role = "organization" THEN m.user.id ELSE Null]

Login(email, password) ==
  /\ last' = [op |-> "login", req |-> [email |-> email, password |-> password],
              res |-> LoginResponse(email, password)]
  /\ UNCHANGED <<students, organizations, posts, nextId, clock, reg, linkSchema>>

(***************************************************************************)
(* POST /api/cv and GET /api/cv.                                           *)
(***************************************************************************)
ErrCvRequired == "Email, First Name, Last Name, and Phone are required."
ErrStudentNotFound == "Student not found."
ErrEmailRequired == "Email is required."

CvOptional ==
  {"address", "education", "skills", "experience", "projects", "certifications"}

CvRequiredMissing(b) ==
  Falsy(b.email) \/ Falsy(b.firstName) \/ Falsy(b.lastName) \/ Falsy(b.phone)

CvAssign_KeepsMissing(student, b) ==
  [student EXCEPT
     !.firstName = CastStudentString(b.firstName),
     !.lastName = CastStudentString(b.lastName),
     !.phone = CastStudentString(b.phone),
     !.address = CastStudentString(Or(b.address, student.address)),
     !.education = CastStudentString(Or(b.education, student.education)),
     !.skills = CastStudentString(Or(b.skills, student.skills)),
     !.experience = CastStudentString(Or(b.experience, student.experience)),
     !.projects = CastStudentString(Or(b.projects, student.projects)),
     !.certifications =
        CastStudentString(Or(b.certifications, student.certifications))]

\* student.firstName = firstName; ...; student.address = address || ''; ...
CvAssign(student, b) ==
  [student EXCEPT
     !.firstName = CastStudentString(b.firstName),
     !.lastName = CastStudentString(b.lastName),
     !.phone = CastStudentString(b.phone),
     !.address = CastStudentString(Or(b.address, Empty)),
     !.education = CastStudentString(Or(b.education, Empty)),
     !.skills = CastStudentString(Or(b.skills, Empty)),
     !.experience = CastStudentString(Or(b.experience, Empty)),
     !.projects = CastStudentString(Or(b.projects, Empty)),
     !.certifications = CastStudentString(Or(b.certifications, Empty))]

CvView(student) ==
  [firstName |-> student.firstName, lastName |-> student.lastName,
   email |-> student.email, phone |-> student.phone,
   address |-> student.address, education |-> student.education,
   skills |-> student.skills, experience |-> student.experience,
   projects |-> student.projects, certifications |-> student.certifications]

SaveCV(b) ==
  /\ IF CvRequiredMissing(b)
     THEN /\ last' = [op |-> "saveCV", req |-> b,
                      res |-> [code |-> 400, error |-> ErrCvRequired]]
          /\ UNCHANGED students
     ELSE IF StudentFind(b.email) = {}
     THEN /\ last' = [op |-> "saveCV", req |-> b,
                      res |-> [code |-> 400, error |-> ErrStudentNotFound]]
          /\ UNCHANGED students
     ELSE LET student == CHOOSE s \in StudentFind(b.email) : TRUE
              saved == CvAssign(student, b)
          IN /\ students' = (students \ {student}) \cup {saved}
             /\ last' = [op |-> "saveCV", req |-> b,
                         res |-> [code |-> 200, error |-> "",
                                  cv |-> CvView(saved)],
                         before |-> student]
  /\ UNCHANGED <<organizations, posts, nextId, clock, reg, linkSchema>>

GetCV(email) ==
  /\ last' = [op |-> "getCV", req |-> [email |-> email],
              res |-> IF Falsy(email)
                      THEN [code |-> 400, error |-> ErrEmailRequired]
                      ELSE IF StudentFind(email) = {}
                      THEN [code |-> 400, error |-> ErrStudentNotFound]
                      ELSE [code |-> 200, error |-> "",
                            cv |-> CvView(CHOOSE s \in StudentFind(email) : TRUE)]]
  /\ UNCHANGED <<students, organizations, posts, nextId, clock, reg, linkSchema>>

(***************************************************************************)
(* Posts.  Identifiers: a positive number is a well-formed ObjectId, Null  *)
(* (0) a missing or empty parameter, NotAnObjectId a string that           *)
(* mongoose.Types.ObjectId.isValid refuses.                                *)
(***************************************************************************)
NotAnObjectId == -1

ObjectIdIsValid(id) == id # NotAnObjectId

\* new Date(str).getTime(): the instant a date string denotes, NaN for a
\* string that is no date.
NaN == -1

DateGetTime(str) ==
  CASE str = "2024-01-01" -> 1
    [] str = "2024-01-01T00:00:00.000Z" -> 1
    [] str = "2024-06-01" -> 2
    [] str = "2024-12-31" -> 3
    [] OTHER -> NaN

parseDate(str) ==
  IF str = "" THEN Null
  ELSE IF DateGetTime(str) = NaN THEN Null ELSE DateGetTime(str)

TitleMaxLength == 100
DescriptionMinLength == 20
DescriptionMaxLength == 2000

PostTypes == {"Internship", "Volunteering", "Mentorship", "Event"}
PostStatuses == {"draft", "active"}

\* The file holds two revisions of postSchema, which differ in
\* applicationLink: a trimmed string defaulting to '' (revision 1), or a
\* required string that must start with http:// or https:// (revision 2).
\* The variable linkSchema is the revision the running server loaded.  A link
\* is a sequence of tokens, the scheme being one token.
LinkSchemas == {"optional", "requiredUrl"}

CastTitle(s) == Trim(s)

CastLink(schema, s) == IF schema = "optional" THEN Trim(s) ELSE s

LinkIsUrl(v) == v # Empty /\ Head(v) \in {"http://", "https://"}

LinkValid(schema, v) == schema = "optional" \/ LinkIsUrl(v)

\* A description is a text and its length: no setter acts on it, and the
\* validators read its length only.
Description(text, len) == [text |-> text, len |-> len]

NoDescription == Description("", 0)

\* The validators of title, type, description and applicationLink, run by
\* save() and, with runValidators, by findByIdAndUpdate on the cast values.
PostPathsValid(schema, title, type, description, link) ==
  /\ title # Empty /\ Len(title) <= TitleMaxLength
  /\ type \in PostTypes
  /\ description.len >= DescriptionMinLength
  /\ description.len <= DescriptionMaxLength
  /\ LinkValid(schema, link)

ErrCreateRequired == "orgId, orgName, title, type, and description are required."
ErrStatus == "Status must be \"draft\" or \"active\"."
ErrOrgIdFormat == "Invalid orgId format"
ErrDateRange == "Start date cannot be after end date."
ErrValidation == "ValidationError"
ErrUpdateRequired == "Title, type, and description are required."
ErrPostNotFound == "Post not found"
ErrUpdateFailed == "Failed to update post"
ErrDeleteFailed == "Failed to delete post"
ErrPostId == "Invalid post ID"

Fail(code, error) == [code |-> code, error |-> error]

DateRangeBad_Never(start, end) == FALSE

\* start && end && start > end
DateRangeBad(start, end) == start # Null /\ end # Null /\ start > end

PostFindById(id) == {p \in posts : p.id = id}

(***************************************************************************)
(* POST /api/posts.  now is the time of the save, which sets createdAt.    *)
(***************************************************************************)
CreateStatus(b) == IF b.status = "undefined" THEN "draft" ELSE b.status

NewPost(id, b, now) ==
  [id |-> id, orgId |-> b.orgId, orgName |-> b.orgName,
   title |-> CastTitle(b.title), type |-> b.type,
   description |-> b.description,
   location |-> IF b.location = "" THEN "Remote" ELSE b.location,
   durationStart |-> parseDate(b.durationStart),
   durationEnd |-> parseDate(b.durationEnd),
   deadline |-> parseDate(b.deadline),
   applicationLink |-> CastLink(linkSchema, Or(b.applicationLink, Empty)),
   status |-> CreateStatus(b), createdAt |-> now]

CreateResponse(b, now) ==
  IF b.orgId = Null \/ b.orgName = "" \/ Falsy(b.title) \/ b.type = ""
       \/ b.description = NoDescription
  THEN Fail(400, ErrCreateRequired)
  ELSE IF CreateStatus(b) \notin PostStatuses THEN Fail(400, ErrStatus)
  ELSE IF ~ObjectIdIsValid(b.orgId) THEN Fail(400, ErrOrgIdFormat)
  ELSE IF DateRangeBad(parseDate(b.durationStart), parseDate(b.durationEnd))
  THEN Fail(400, ErrDateRange)
  ELSE LET post == NewPost(nextId, b, now) IN
       IF ~PostPathsValid(linkSchema, post.title, post.type, post.description,
                          post.applicationLink)
       THEN Fail(400, ErrValidation)
       ELSE [code |-> 201, error |-> "", post |-> post]

Create(b) ==
  /\ nextId <= MaxIds
  /\ \E now \in {clock, clock + 1} :
       /\ now <= MaxTime
       /\ \E res \in {CreateResponse(b, now)} :
            /\ last' = [op |-> "create", req |-> b, res |-> res]
            /\ IF res.code = 201
               THEN /\ posts' = posts \cup {res.post}
                    /\ nextId' = nextId + 1
                    /\ clock' = now
               ELSE UNCHANGED <<posts, nextId, clock>>
  /\ UNCHANGED <<students, organizations, reg, linkSchema>>

(***************************************************************************)
(* PUT /api/posts/:id.                                                     *)
(***************************************************************************)
UpdateFields_WithStatus(post, b) ==
  [post EXCEPT
     !.title = CastTitle(b.title),
     !.type = b.type,
     !.description = b.description,
     !.location = IF b.location = "" THEN "Remote" ELSE b.location,
     !.durationStart = parseDate(b.durationStart),
     !.durationEnd = parseDate(b.durationEnd),
     !.deadline = parseDate(b.deadline),
     !.applicationLink = CastLink(linkSchema, Or(b.applicationLink, Empty)),
     !.status = IF b.status \in PostStatuses THEN b.status ELSE post.status]

UpdateFields_Patch(post, b) ==
  [post EXCEPT
     !.title = CastTitle(b.title),
     !.type = b.type,
     !.description = b.description,
     !.location = IF b.location = "" THEN post.location ELSE b.location,
     !.durationStart = parseDate(b.durationStart),
     !.durationEnd = parseDate(b.durationEnd),
     !.deadline = parseDate(b.deadline),
     !.applicationLink = CastLink(linkSchema, Or(b.applicationLink, Empty))]

\* The update document of findByIdAndUpdate, applied to the stored post.
UpdateFields(post, b) ==
  [post EXCEPT
     !.title = CastTitle(b.title),
     !.type = b.type,
     !.description = b.description,
     !.location = IF b.location = "" THEN "Remote" ELSE b.location,
     !.durationStart = parseDate(b.durationStart),
     !.durationEnd = parseDate(b.durationEnd),
     !.deadline = parseDate(b.deadline),
     !.applicationLink = CastLink(linkSchema, Or(b.applicationLink, Empty))]

\* The filter's _id is cast first (a CastError is no ValidationError: 500),
\* then the update is cast and validated, then the document is looked up.
UpdateResponse(id, b) ==
  IF Falsy(b.title) \/ b.type = "" \/ b.description = NoDescription
  THEN Fail(400, ErrUpdateRequired)
  ELSE IF DateRangeBad(parseDate(b.durationStart), parseDate(b.durationEnd))
  THEN Fail(400, ErrDateRange)
  ELSE IF ~ObjectIdIsValid(id) THEN Fail(500, ErrUpdateFailed)
  ELSE IF ~PostPathsValid(linkSchema, CastTitle(b.title), b.type, b.description,
                          CastLink(linkSchema, Or(b.applicationLink, Empty)))
  THEN Fail(400, ErrValidation)
  ELSE IF PostFindById(id) = {} THEN Fail(404, ErrPostNotFound)
  ELSE LET post == CHOOSE p \in PostFindById(id) : TRUE IN
       [code |-> 200, error |-> "", post |-> UpdateFields(post, b)]

Update(id, b) ==
  /\ \E res \in {UpdateResponse(id, b)} :
     /\ last' = [op |-> "update", req |-> [id |-> id, body |-> b], res |-> res,
                 before |-> PostFindById(id)]
     /\ IF res.code = 200
        THEN posts' = (posts \ PostFindById(id)) \cup {res.post}
        ELSE UNCHANGED posts
  /\ UNCHANGED <<students, organizations, nextId, clock, reg, linkSchema>>

(***************************************************************************)
(* DELETE /api/posts/:id and GET /api/posts/:id.                           *)
(***************************************************************************)
DeleteResponse(id) ==
  IF ~ObjectIdIsValid(id) THEN Fail(500, ErrDeleteFailed)
  ELSE IF PostFindById(id) = {} THEN Fail(404, ErrPostNotFound)
  ELSE [code |-> 200, error |-> ""]

Delete(id) ==
  /\ \E res \in {DeleteResponse(id)} :
     /\ last' = [op |-> "delete", req |-> [id |-> id], res |-> res]
     /\ IF res.code = 200
        THEN posts' = posts \ PostFindById(id)
        ELSE UNCHANGED posts
  /\ UNCHANGED <<students, organizations, nextId, clock, reg, linkSchema>>

GetResponse(id) ==
  IF ~ObjectIdIsValid(id) THEN Fail(400, ErrPostId)
  ELSE IF PostFindById(id) = {} THEN Fail(404, ErrPostNotFound)
  ELSE [code |-> 200, error |-> "", post |-> CHOOSE p \in PostFindById(id) : TRUE]

Get(id) ==
  /\ last' = [op |-> "get", req |-> [id |-> id], res |-> GetResponse(id)]
  /\ UNCHANGED <<students, organizations, posts, nextId, clock, reg, linkSchema>>

(***************************************************************************)
(* GET /api/posts.  sort({ createdAt: -1 }) yields some order of the       *)
(* matching posts in which createdAt never increases; posts of equal       *)
(* createdAt come in either order.                                         *)
(***************************************************************************)
Orderings(S) ==
  {q \in [1..Cardinality(S) -> S] : \A i, j \in 1..Cardinality(S) : q[i] = q[j] => i = j}

SortNewestFirst(S) ==
  {q \in Orderings(S) :
     \A i, j \in 1..Cardinality(S) : i < j => q[i].createdAt >= q[j].createdAt}

ListFilter_ActiveOnly(orgId) ==
  IF orgId # Null
  THEN {p \in posts : p.orgId = orgId /\ p.status = "active"}
  ELSE {p \in posts : p.status = "active"}

\* Post.find({ orgId }) or Post.find({ status: 'active' })
ListFilter(orgId) ==
  IF orgId # Null
  THEN {p \in posts : p.orgId = orgId}
  ELSE {p \in posts : p.status = "active"}

List(orgId) ==
  /\ IF orgId # Null /\ ~ObjectIdIsValid(orgId)
     THEN last' = [op |-> "list", req |-> [orgId |-> orgId],
                   res |-> Fail(400, ErrOrgIdFormat)]
     ELSE \E q \in SortNewestFirst(ListFilter(orgId)) :
            last' = [op |-> "list", req |-> [orgId |-> orgId],
                     res |-> [code |-> 200, error |-> "", posts |-> q]]
  /\ UNCHANGED <<students, organizations, posts, nextId, clock, reg, linkSchema>>

(***************************************************************************)
(* Request inputs.                                                         *)
(***************************************************************************)
EmailA == <<"a">>
EmailSpA == <<" ", "a">>
EmailB == <<"b">>
Emails == {EmailA, EmailSpA, EmailB}

StudentBody(email) ==
  [role |-> "student", email |-> email, firstName |-> <<"F">>,
   lastName |-> <<"L">>, phone |-> <<"1">>, password |-> "p1",
   orgName |-> Empty, orgTerms |-> FALSE]

OrgBody(email) ==
  [role |-> "organization", email |-> email, firstName |-> Empty,
   lastName |-> Empty, phone |-> Empty, password |-> "p2",
   orgName |-> <<"O">>, orgTerms |-> TRUE]

RegBodies ==
  {StudentBody(e) : e \in Emails} \cup {OrgBody(e) : e \in Emails}
    \cup {[StudentBody(EmailA) EXCEPT !.role = "admin"],
          [StudentBody(EmailA) EXCEPT !.firstName = Empty],
          [StudentBody(EmailA) EXCEPT !.email = <<" ">>],
          [OrgBody(EmailA) EXCEPT !.orgTerms = FALSE]}

\* Complete registrations only.
LoginAccountBodies ==
  {StudentBody(e) : e \in {EmailA, EmailSpA}}
    \cup {OrgBody(e) : e \in {EmailA, EmailSpA}}

CvAccountBodies == {StudentBody(EmailA), StudentBody(EmailB), OrgBody(EmailA)}

LoginEmails == Emails \cup {Empty}
LoginPasswords == {"p1", "p2", ""}

CvBase(email) ==
  [email |-> email, firstName |-> <<"G">>, lastName |-> <<"M">>,
   phone |-> <<"2">>, address |-> Empty, education |-> Empty,
   skills |-> Empty, experience |-> Empty, projects |-> Empty,
   certifications |-> Empty]

CvFull(email) ==
  [CvBase(email) EXCEPT !.address = <<"x">>, !.education = <<"x">>,
     !.skills = <<"x">>, !.experience = <<"x">>, !.projects = <<"x">>,
     !.certifications = <<"x">>]

CvBodies ==
  {CvBase(e) : e \in LoginEmails} \cup {CvFull(e) : e \in Emails}
    \cup {[CvBase(EmailA) EXCEPT !.skills = <<"x", " ">>],
          [CvBase(EmailA) EXCEPT !.firstName = <<" ", "G", " ">>],
          [CvBase(EmailA) EXCEPT !.firstName = Empty],
          [CvBase(EmailA) EXCEPT !.phone = Empty]}

D20 == Description("d", DescriptionMinLength)

LinkHttp == <<"http://", "x">>

PostBase ==
  [orgId |-> 1, orgName |-> "Acme", title |-> <<"T">>, type |-> "Internship",
   description |-> D20, location |-> "", durationStart |-> "",
   durationEnd |-> "", deadline |-> "", applicationLink |-> LinkHttp,
   status |-> "undefined"]

PostRich ==
  [PostBase EXCEPT !.location = "Onsite", !.durationStart = "2024-01-01",
     !.durationEnd = "2024-06-01", !.deadline = "2024-12-31"]

PostIds == {NotAnObjectId} \cup (1..MaxIds)

DateBodies ==
  {[PostBase EXCEPT !.durationStart = d[1], !.durationEnd = d[2]] :
     d \in {<<"", "">>, <<"2024-01-01", "2024-06-01">>,
            <<"2024-06-01", "2024-01-01">>,
            <<"2024-06-01", "2024-01-01T00:00:00.000Z">>,
            <<"2024-06-01", "">>, <<"soon", "2024-01-01">>,
            <<"2024-06-01", "soon">>}}
    \cup {[PostBase EXCEPT !.durationStart = "2024-06-01",
                          !.durationEnd = "2024-01-01", !.title = Empty]}

ReplaceBodies ==
  {PostBase, PostRich,
   [PostBase EXCEPT !.applicationLink = Empty],
   [PostRich EXCEPT !.title = <<" ", "T", " ">>],
   [PostRich EXCEPT !.applicationLink = <<" ", "http://", "x">>]}

InvalidBodies ==
  {[PostBase EXCEPT !.title = <<" ">>],
   [PostBase EXCEPT !.title = Repeat("t", TitleMaxLength + 1)],
   [PostBase EXCEPT !.type = "Job"],
   [PostBase EXCEPT !.description = Description("e", DescriptionMinLength - 1)],
   [PostBase EXCEPT !.description = Description("f", DescriptionMaxLength + 1)],
   [PostBase EXCEPT !.description = NoDescription],
   [PostBase EXCEPT !.applicationLink = <<"ftp://", "x">>]}

StatusBodies ==
  {[PostBase EXCEPT !.status = st] : st \in {"draft", "active", "archived", ""}}

OrgIdInputs == {Null, NotAnObjectId, 1, 2}

ListBodies ==
  {[PostBase EXCEPT !.orgId = o, !.status = st] :
     o \in OrgIdInputs, st \in {"undefined", "active"}}
    \cup {[PostBase EXCEPT !.orgName = ""]}

RefBodies == {[PostBase EXCEPT !.orgId = o] : o \in 1..(MaxIds + 1)}

(***************************************************************************)
(* Initial state: an empty database, no request in flight.                 *)
(***************************************************************************)
Init ==
  /\ students = {}
  /\ organizations = {}
  /\ posts = {}
  /\ nextId = 1
  /\ clock = 0
  /\ reg = [r \in Req |-> RegIdle]
  /\ last = Idle
  /\ linkSchema \in LinkSchemas

RegisterNext == \E r \in Req : Register(r, RegBodies)

SpecRegister == Init /\ [][RegisterNext]_vars

LoginNext ==
  \/ \E r \in Req : Register(r, LoginAccountBodies)
  \/ \E e \in LoginEmails, p \in LoginPasswords : Login(e, p)

SpecLogin == Init /\ [][LoginNext]_vars

CvNext ==
  \/ Register(1, CvAccountBodies)
  \/ \E b \in CvBodies : SaveCV(b)
  \/ \E e \in LoginEmails : GetCV(e)

SpecCV == Init /\ [][CvNext]_vars

DatesNext ==
  \/ \E b \in DateBodies : Create(b)
  \/ \E id \in 1..MaxIds, b \in DateBodies : Update(id, b)
  \/ \E id \in 1..MaxIds : Delete(id)

SpecPostDates == Init /\ [][DatesNext]_vars

ReplaceNext ==
  \/ \E b \in ReplaceBodies \cup InvalidBodies : Create(b)
  \/ \E id \in 1..MaxIds, b \in ReplaceBodies : Update(id, b)
  \/ \E b \in InvalidBodies : Update(1, b)
  \/ \E id \in 1..MaxIds : Delete(id)

SpecPostReplace == Init /\ [][ReplaceNext]_vars

PostNext ==
  \/ \E b \in StatusBodies \cup {PostBase, PostRich} : Create(b)
  \/ \E id \in PostIds, b \in StatusBodies \cup {PostBase, PostRich} :
       Update(id, b)
  \/ \E id \in PostIds : Delete(id)
  \/ \E id \in PostIds : Get(id)
  \/ \E o \in {Null, 1} : List(o)

SpecPost == Init /\ [][PostNext]_vars

ListNext ==
  \/ \E b \in ListBodies : Create(b)
  \/ \E id \in PostIds : Update(id, PostRich)
  \/ \E id \in PostIds : Delete(id)
  \/ \E o \in OrgIdInputs \cup {MaxIds + 1} : List(o)

SpecPostList == Init /\ [][ListNext]_vars

RefNext ==
  \/ Register(1, {OrgBody(EmailA), OrgBody(EmailB), StudentBody(EmailA)})
  \/ \E b \in RefBodies : Create(b)
  \/ \E id \in 1..MaxIds : Update(id, PostRich)
  \/ \E id \in 1..MaxIds : Delete(id)

SpecPostRef == Init /\ [][RefNext]_vars

(***************************************************************************)
(* C1.  A Register request (role student or organization) whose email is   *)
(* held by a Student or an Organization account when it arrives ends with  *)
(* the conflict error, and no step of it changes either collection.        *)
(***************************************************************************)
C1_Conflict ==
  /\ [](\A r \in Req :
         (reg[r].held /\ reg[r].pc = "done"
            /\ reg[r].body.role \in {"student", "organization"})
           => (reg[r].code = 400 /\ reg[r].error = ErrEmailExists))
  /\ [][\A r \in Req :
         (reg[r].held /\ reg[r].pc \notin {"idle", "done"} /\ reg'[r] # reg[r])
           => (students' = students /\ organizations' = organizations)]_vars

\* A student registration refused because an organization holds the email.
C1_Witness ==
  \E r \in Req :
    /\ reg[r].held /\ reg[r].pc = "done" /\ reg[r].body.role = "student"
    /\ reg[r].code = 400 /\ reg[r].error = ErrEmailExists
    /\ \E o \in organizations : o.email = reg[r].body.email
    /\ ~\E s \in students : s.email = reg[r].body.email

(***************************************************************************)
(* C2.  No email is held by more than one account of the union of the      *)
(* Student and Organization collections.                                   *)
(***************************************************************************)
AccountEmails ==
  {<<"student", s.id, s.email>> : s \in students}
    \cup {<<"organization", o.id, o.email>> : o \in organizations}

C2_EmailUniqueAcrossUnion ==
  \A x, y \in AccountEmails : x[3] = y[3] => x = y

(***************************************************************************)
(* C3.  Login(email, password), both supplied, succeeds with role r only   *)
(* if the collection of role r holds an account with that email whose      *)
(* stored hash verifies the password; it fails with 'Invalid credentials'  *)
(* when neither collection has the email or the hash of the account it     *)
(* resolves to does not verify; orgId is the account id for an             *)
(* organization and null for a student.                                    *)
(* As stated (C3_AsStated) the email is compared as supplied; the code     *)
(* compares a student's email with the supplied one trimmed                *)
(* (C3_LoginSound).                                                        *)
(***************************************************************************)
LoginSupplied == last.op = "login" /\ last.req.email # Empty /\ last.req.password # ""

LoginOk(role) == last.res.code = 200 /\ last.res.role = role

LoginInvalid == last.res.code = 400 /\ last.res.error = ErrInvalidCredentials

C3_AsStated ==
  LoginSupplied =>
    LET q == last.req
        res == last.res
        ss == {s \in students : s.email = q.email}
        os == {o \in organizations : o.email = q.email}
    IN /\ res.code = 200 => res.role \in {"student", "organization"}
       /\ LoginOk("student") =>
            /\ \E s \in ss : Compare(q.password, s.password) /\ res.id = s.id
            /\ res.orgId = Null
       /\ LoginOk("organization") =>
            /\ \E o \in os : Compare(q.password, o.password) /\ res.id = o.id
            /\ res.orgId = res.id
       /\ (ss = {} /\ os = {}) => LoginInvalid
       /\ (ss # {} /\ \A s \in ss : ~Compare(q.password, s.password))
            => LoginInvalid
       /\ (ss = {} /\ os # {} /\ \A o \in os : ~Compare(q.password, o.password))
            => LoginInvalid

C3_LoginSound ==
  LoginSupplied =>
    LET q == last.req
        res == last.res
        ss == {s \in students : s.email = Trim(q.email)}
        os == {o \in organizations : o.email = q.email}
    IN /\ res.code = 200 => res.role \in {"student", "organization"}
       /\ LoginOk("student") =>
            /\ \E s \in ss : Compare(q.password, s.password) /\ res.id = s.id
            /\ res.orgId = Null
       /\ LoginOk("organization") =>
            /\ \E o \in os : Compare(q.password, o.password) /\ res.id = o.id
            /\ res.orgId = res.id
       /\ (ss = {} /\ os = {}) => LoginInvalid
       /\ (ss # {} /\ \A s \in ss : ~Compare(q.password, s.password))
            => LoginInvalid
       /\ (ss = {} /\ os # {} /\ \A o \in os : ~Compare(q.password, o.password))
            => LoginInvalid

\* A login refused on the student's hash although an organization with the
\* same email would have verified the password.
C3_Witness ==
  /\ LoginSupplied /\ LoginInvalid
  /\ \E s \in students : s.email = last.req.email
  /\ \E o \in organizations :
       o.email = last.req.email /\ Compare(last.req.password, o.password)

(***************************************************************************)
(* C9.  SaveCV never creates a student.  With email, firstName, lastName   *)
(* or phone empty it fails with the validation error, for an email with no *)
(* Student account with 'Student not found.', the Student collection       *)
(* unchanged in both cases.  On success the students are the same ones,    *)
(* the addressed student keeps email and password, firstName, lastName and *)
(* phone take the request's values and every optional field the request    *)
(* misses is the empty string.                                             *)
(* As stated (C9_AsStated) the email and the three names are compared as   *)
(* supplied; the code trims them (C9_SaveCvFrame).                         *)
(***************************************************************************)
C9_AsStated ==
  [][last'.op = "saveCV" =>
      LET b == last'.req
          res == last'.res
          ss == {s \in students : s.email = b.email}
      IN /\ {s.id : s \in students'} = {s.id : s \in students}
         /\ CvRequiredMissing(b) =>
              res.code = 400 /\ res.error = ErrCvRequired /\ students' = students
         /\ (~CvRequiredMissing(b) /\ ss = {}) =>
              res.code = 400 /\ res.error = ErrStudentNotFound
                /\ students' = students
         /\ res.code = 200 =>
              \E s \in students, t \in students' :
                /\ s.email = b.email /\ t.id = s.id
                /\ students' \ {t} = students \ {s}
                /\ t.email = s.email /\ t.password = s.password
                /\ t.firstName = b.firstName /\ t.lastName = b.lastName
                /\ t.phone = b.phone
                /\ \A f \in CvOptional : Falsy(b[f]) => t[f] = Empty
  ]_vars

C9_SaveCvFrame ==
  [][last'.op = "saveCV" =>
      LET b == last'.req
          res == last'.res
          ss == {s \in students : s.email = Trim(b.email)}
      IN /\ {s.id : s \in students'} = {s.id : s \in students}
         /\ CvRequiredMissing(b) =>
              res.code = 400 /\ res.error = ErrCvRequired /\ students' = students
         /\ (~CvRequiredMissing(b) /\ ss = {}) =>
              res.code = 400 /\ res.error = ErrStudentNotFound
                /\ students' = students
         /\ res.code = 200 =>
              \E s \in students, t \in students' :
                /\ s.email = Trim(b.email) /\ t.id = s.id
                /\ students' \ {t} = students \ {s}
                /\ t.email = s.email /\ t.password = s.password
                /\ t.firstName = Trim(b.firstName) /\ t.lastName = Trim(b.lastName)
                /\ t.phone = Trim(b.phone)
                /\ \A f \in CvOptional : Falsy(b[f]) => t[f] = Empty
  ]_vars

\* A successful SaveCV that omits the address of a student whose stored
\* address was "x", with a second student in the collection.
C9_Witness ==
  /\ last.op = "saveCV" /\ last.res.code = 200
  /\ Falsy(last.req.address) /\ last.before.address = <<"x">>
  /\ \E t \in students : t.id = last.before.id /\ t.address = Empty
  /\ Cardinality(students) = 2

(***************************************************************************)
(* C4.  A Post Create or Update whose durationStart and durationEnd both   *)
(* parse, with start after end, fails with a validation error (400) and    *)
(* leaves the posts collection as it was; and every stored post with both  *)
(* dates set has durationStart <= durationEnd.                             *)
(***************************************************************************)
Parses(str) == str # "" /\ DateGetTime(str) # NaN

StartAfterEnd(b) ==
  /\ Parses(b.durationStart) /\ Parses(b.durationEnd)
  /\ DateGetTime(b.durationStart) > DateGetTime(b.durationEnd)

PostBody(l) == IF l.op = "update" THEN l.req.body ELSE l.req

C4_DateRange ==
  /\ [](\A p \in posts :
         (p.durationStart # Null /\ p.durationEnd # Null)
           => p.durationStart <= p.durationEnd)
  /\ [][(last'.op \in {"create", "update"} /\ StartAfterEnd(PostBody(last')))
          => (last'.res.code = 400 /\ posts' = posts)]_vars

\* An Update of a stored post refused for its date range.
C4_Witness ==
  /\ last.op = "update" /\ StartAfterEnd(last.req.body)
  /\ last.res.code = 400 /\ last.res.error = ErrDateRange
  /\ last.before # {} /\ last.before \subseteq posts

(***************************************************************************)
(* C5.  After a successful Update(id, fields) the stored post holds the    *)
(* default of every one of location, durationStart, durationEnd, deadline  *)
(* and applicationLink the request omits ("Remote", no date, the empty     *)
(* link), whatever it held before, and the request's title, type and       *)
(* description.                                                            *)
(* As stated (C5_AsStated) the title is the request's; the code stores it  *)
(* trimmed (C5_FullReplace).                                               *)
(***************************************************************************)
UpdateOk == last.op = "update" /\ last.res.code = 200

OmittedHoldDefaults(b, q) ==
  /\ b.location = "" => q.location = "Remote"
  /\ b.durationStart = "" => q.durationStart = Null
  /\ b.durationEnd = "" => q.durationEnd = Null
  /\ b.deadline = "" => q.deadline = Null
  /\ b.applicationLink = Empty => q.applicationLink = Empty

C5_AsStated ==
  UpdateOk =>
    \E q \in posts :
      /\ q.id = last.req.id
      /\ OmittedHoldDefaults(last.req.body, q)
      /\ q.title = last.req.body.title
      /\ q.type = last.req.body.type
      /\ q.description = last.req.body.description

C5_FullReplace ==
  UpdateOk =>
    \E q \in posts :
      /\ q.id = last.req.id
      /\ OmittedHoldDefaults(last.req.body, q)
      /\ q.title = Trim(last.req.body.title)
      /\ q.type = last.req.body.type
      /\ q.description = last.req.body.description

\* An Update omitting location, the dates and the link of a post that held
\* "Onsite", three dates and a link.
C5_Witness ==
  /\ UpdateOk
  /\ last.req.body.location = "" /\ last.req.body.durationStart = ""
  /\ last.req.body.durationEnd = "" /\ last.req.body.deadline = ""
  /\ last.req.body.applicationLink = Empty
  /\ \E p \in last.before :
       /\ p.location = "Onsite" /\ p.durationStart # Null
       /\ p.durationEnd # Null /\ p.deadline # Null
       /\ p.applicationLink # Empty
  /\ \E q \in posts : q.id = last.req.id /\ q.location = "Remote"

(***************************************************************************)
(* C6.  A post is created draft or active as the caller chooses (draft     *)
(* when no status is given), its status is draft or active in every state, *)
(* a stored draft post can be made active and a stored active post draft   *)
(* by some Update, and no other operation changes a stored post's status.  *)
(* As stated (C6_AsStated) an Update can change the status; in the code no *)
(* operation, Update included, changes it (C6_StatusFixed).                *)
(***************************************************************************)
StatusIsValid == \A p \in posts : p.status \in PostStatuses

CreatedAsChosen ==
  (last'.op = "create" /\ last'.res.code = 201) =>
    \E q \in posts' \ posts :
      /\ posts' = posts \cup {q}
      /\ q.status = IF last'.req.status = "undefined" THEN "draft"
                    ELSE last'.req.status

OnlyUpdateChangesStatus ==
  last'.op # "update" =>
    \A p \in posts, q \in posts' : q.id = p.id => q.status = p.status

NothingChangesStatus ==
  \A p \in posts, q \in posts' : q.id = p.id => q.status = p.status

SomeUpdateFlips(p) ==
  ENABLED (\E b \in StatusBodies :
             /\ Update(p.id, b)
             /\ \E q \in posts' : q.id = p.id /\ q.status # p.status)

C6_AsStated ==
  /\ [](StatusIsValid /\ \A p \in posts : SomeUpdateFlips(p))
  /\ [][CreatedAsChosen /\ OnlyUpdateChangesStatus]_vars

C6_StatusFixed ==
  /\ []StatusIsValid
  /\ [][CreatedAsChosen /\ NothingChangesStatus]_vars

\* A successful Update asking for status active on a post that stays draft.
C6_Witness ==
  /\ UpdateOk /\ last.req.body.status = "active"
  /\ \E q \in posts : q.id = last.req.id /\ q.status = "draft"

(***************************************************************************)
(* C7.  List without orgId returns exactly the stored active posts; with a *)
(* well-formed orgId exactly the stored posts of that organization,        *)
(* whatever their status; in both modes newest first by creation time; a   *)
(* malformed orgId fails with a validation error.                          *)
(***************************************************************************)
Elements(q) == {q[i] : i \in DOMAIN q}

NewestFirst(q) ==
  \A i, j \in DOMAIN q : i < j => q[i].createdAt >= q[j].createdAt

ListReturns(S) ==
  /\ last.res.code = 200
  /\ Elements(last.res.posts) = S
  /\ Len(last.res.posts) = Cardinality(S)
  /\ NewestFirst(last.res.posts)

C7_ListModes ==
  last.op = "list" =>
    IF last.req.orgId = Null
    THEN ListReturns({p \in posts : p.status = "active"})
    ELSE IF last.req.orgId = NotAnObjectId
    THEN last.res.code = 400 /\ last.res.error = ErrOrgIdFormat
    ELSE ListReturns({p \in posts : p.orgId = last.req.orgId})

\* A list by organization that returns a draft post and an older post.
C7_Witness ==
  /\ last.op = "list" /\ last.req.orgId \notin {Null, NotAnObjectId}
  /\ last.res.code = 200 /\ Len(last.res.posts) = 2
  /\ last.res.posts[1].createdAt > last.res.posts[2].createdAt
  /\ \E i \in 1..2 : last.res.posts[i].status = "draft"

(***************************************************************************)
(* C8.  The orgId of every stored post is the identifier of an             *)
(* Organization of the Organization collection.                            *)
(***************************************************************************)
C8_OrgIdRefersToOrganization ==
  \A p \in posts : \E o \in organizations : o.id = p.orgId

(***************************************************************************)
(* C10.  Delete(id) and Update(id, valid fields) fail with NotFoundError   *)
(* (404) for every id that resolves to no stored post, a malformed id      *)
(* included, and leave the posts unchanged; Delete(id) of a stored post    *)
(* removes that post and no other, and the id resolves to no post ever     *)
(* after: Get, Update and Delete of it fail with NotFoundError.            *)
(***************************************************************************)
Resolves(id) == \E p \in posts : p.id = id

FieldsValid(b) ==
  /\ ~StartAfterEnd(b)
  /\ PostPathsValid(linkSchema, Trim(b.title), b.type, b.description,
                    CastLink(linkSchema, b.applicationLink))

NotFound(res) == res.code = 404 /\ res.error = ErrPostNotFound

C10_AsStated ==
  [][/\ (last'.op = "delete" /\ ~Resolves(last'.req.id))
          => (NotFound(last'.res) /\ posts' = posts)
     /\ (last'.op = "update" /\ ~Resolves(last'.req.id)
           /\ FieldsValid(last'.req.body))
          => (NotFound(last'.res) /\ posts' = posts)
     /\ (last'.op = "get" /\ ~Resolves(last'.req.id)
           /\ ObjectIdIsValid(last'.req.id))
          => NotFound(last'.res)
     /\ (last'.op = "delete" /\ Resolves(last'.req.id))
          => /\ last'.res.code = 200
             /\ posts' = {p \in posts : p.id # last'.req.id}
     /\ \A q \in posts' : Resolves(q.id) \/ q.id >= nextId
     /\ \A p \in posts : p.id < nextId
  ]_vars

====
